---- MODULE Spec2Model ----
(***************************************************************************)
(* A model of the linking and execution engine of src/src/Polestar.ts:    *)
(* the Polestar loader (loads, moduleWrappers, error latch, unload,       *)
(* clearError) and the ModuleWrapper state machine (prepare,              *)
(* addToRequiredBy, stopWaitingFor, execute, the per-module require).      *)
(*                                                                         *)
(* Promises are modelled by what the ECMAScript job queue does with them:  *)
(* a reaction registered on a pending promise is kept in `waiters` in      *)
(* registration order, and is moved to the tail of the microtask `queue`   *)
(* when the promise settles; a reaction registered on a settled promise    *)
(* goes to the tail of `queue` at once.  API calls and fetch completions   *)
(* are tasks of the event loop: they run only when `queue` is empty.       *)
(* Module bodies run synchronously inside the job that executes them.      *)
(***************************************************************************)
EXTENDS Integers, Sequences, FiniteSets, TLC

(***************************************************************************)
(* Bounds of the model: how many times each API call is made.              *)
(***************************************************************************)
MaxEntries == 2
MaxRequires == 1
MaxUnloads == 1
MaxClears == 1
MaxPreloads == 1
MaxFails == 1

(***************************************************************************)
(* The world outside the engine: which id the Fetcher returns for a URL,   *)
(* which dependencies a fetched module declares, what its body requires.   *)
(* Init picks one of the Worlds.                                          *)
(***************************************************************************)
Worlds == 1..6

URLs == {"a", "b", "z", "x1", "x2"}
ModuleIds == {"A", "B", "Z", "X"}
EntryIds == {"E1", "E2", "E3", "E4", "E5", "E6"}
AllIds == ModuleIds \cup EntryIds
Names == URLs \cup AllIds

\* FetchResult.id for a fetched URL
IdOf(url) ==
  CASE url = "a" -> "A"
    [] url = "b" -> "B"
    [] url = "z" -> "Z"
    [] url = "x1" -> "X"
    [] url = "x2" -> "X"
    [] OTHER -> url                \* an id asked for as a URL names itself

\* FetchResult.dependencies of the module with this id, in world c
DepsOf(c, id) ==
  CASE c = 1 /\ id = "A" -> <<"b">>             \* chain  A -> B
    [] c = 2 /\ id = "A" -> <<"b">>             \* two-cycle  A <-> B
    [] c = 2 /\ id = "B" -> <<"a">>
    [] c = 3 /\ id = "X" -> <<"a">>             \* X is served under x1 and x2
    [] c = 4 /\ id = "A" -> <<"b">>             \* three-cycle  A -> B -> Z -> A
    [] c = 4 /\ id = "B" -> <<"z">>
    [] c = 4 /\ id = "Z" -> <<"a">>
    [] c = 5 /\ id = "X" -> <<"a", "b">>        \* dedup with cycle peers
    [] c = 5 /\ id = "A" -> <<"x1">>
    [] c = 5 /\ id = "B" -> <<"x1">>
    [] c = 6 /\ id = "B" -> <<"a">>             \* B -> A, and A requires itself
    [] OTHER -> <<>>

\* the requests a fetched module's body passes to require, in order
BodyOf(c, id) ==
  IF c = 6 /\ id = "A" THEN <<"a">>            \* not declared as a dependency
  ELSE DepsOf(c, id)

\* whether the body of the module throws after its requires
ThrowsOf(c, id) == FALSE

\* the dependency lists evaluate is called with in world c
EntryDeps(c) ==
  CASE c = 1 -> {<<"a">>, <<"b">>}
    [] c = 2 -> {<<"a", "b">>}
    [] c = 3 -> {<<"x1">>, <<"x2">>}
    [] c = 4 -> {<<"a">>, <<"z">>}
    [] c = 5 -> {<<"a", "b">>}
    [] c = 6 -> {<<"b">>}

\* the requests Loader.require is called with in world c
RequireRequests(c) ==
  CASE c = 1 -> {"b"}
    [] c = 2 -> {"a"}
    [] c = 3 -> {"x1"}
    [] c = 4 -> {"a"}
    [] c = 5 -> {"x2"}
    [] c = 6 -> {"a"}

\* the ids unload and preloadModule are called with in world c
UnloadIds(c) ==
  CASE c = 1 -> {"B"}
    [] c = 2 -> {"A"}
    [] c = 3 -> {"X"}
    [] c = 4 -> {"A"}
    [] c = 5 -> {}
    [] c = 6 -> {}

PreloadIds(c) ==
  CASE c = 1 -> {"B"}
    [] c = 2 -> {"B"}
    [] c = 3 -> {}
    [] c = 4 -> {}
    [] c = 5 -> {}
    [] c = 6 -> {}

\* 'polestar-anonymous://' + n
EntryId(n) == <<"E1", "E2", "E3", "E4", "E5", "E6">>[n]

(***************************************************************************)
(* Values.                                                                 *)
(***************************************************************************)
\* error values; NoError stands for undefined / null
Err(kind, n) == [k |-> kind, n |-> n]
NoError == Err("none", 0)

\* promises: the load promise of load l, the preparedPromise of wrapper w,
\* preparedPromise.then(handleUnrequiredPrepared) of wrapper w,
\* Promise.resolve(w), Promise.reject(e)
Promise(kind, n, e) == [k |-> kind, n |-> n, e |-> e]
LoadP(l) == Promise("L", l, NoError)
PreparedP(w) == Promise("PP", w, NoError)
EntryP(w) == Promise("EP", w, NoError)
ResolvedP(w) == Promise("RES", w, NoError)
RejectedP(e) == Promise("REJ", 0, e)
NoPromise == Promise("none", 0, NoError)

\* a promise reaction job
Job(kind, p, w, l, s, stage, ids) ==
  [k |-> kind, p |-> p, w |-> w, l |-> l, s |-> s, stage |-> stage, ids |-> ids]

VARIABLES
  cfg,               \* the world picked by Init
  wrappers,          \* the ModuleWrapper objects ever constructed
  loadObjs,          \* the load objects ever constructed
  moduleWrappers,    \* Polestar.moduleWrappers: id -> wrapper (0: none)
  loads,             \* Polestar.loads: url -> load (0: none)
  knownURLs,         \* DefaultResolver.knownURLs: name -> id ("none")
  error,             \* Polestar.error
  errorDetail,       \* Polestar.errorDetail.errorModuleId
  hasCalledOnEntry,  \* Polestar.hasCalledOnEntry
  nextEntryId,       \* Polestar.nextEntryId
  waiters,           \* reactions registered on pending promises
  queue,             \* the microtask queue
  clears,            \* the clearError calls in progress or done
  hist               \* what has been observed from outside the engine

vars ==
  <<cfg, wrappers, loadObjs, moduleWrappers, loads, knownURLs, error,
    errorDetail, hasCalledOnEntry, nextEntryId, waiters, queue, clears, hist>>

\* the engine's state as one value, for the operators that model its code
State ==
  [cfg |-> cfg, wrappers |-> wrappers, loadObjs |-> loadObjs,
   moduleWrappers |-> moduleWrappers, loads |-> loads, knownURLs |-> knownURLs,
   error |-> error, errorDetail |-> errorDetail,
   hasCalledOnEntry |-> hasCalledOnEntry, nextEntryId |-> nextEntryId,
   waiters |-> waiters, queue |-> queue, clears |-> clears, hist |-> hist]

Becomes(S) ==
  /\ cfg' = S.cfg
  /\ wrappers' = S.wrappers
  /\ loadObjs' = S.loadObjs
  /\ moduleWrappers' = S.moduleWrappers
  /\ loads' = S.loads
  /\ knownURLs' = S.knownURLs
  /\ error' = S.error
  /\ errorDetail' = S.errorDetail
  /\ hasCalledOnEntry' = S.hasCalledOnEntry
  /\ nextEntryId' = S.nextEntryId
  /\ waiters' = S.waiters
  /\ queue' = S.queue
  /\ clears' = S.clears
  /\ hist' = S.hist

\* what hist records
InitHist ==
  [fetcherCalls |-> [u \in Names |-> 0],   \* Fetcher invocations per URL
   latchedFetch |-> FALSE,                \* Fetcher invoked while error latched
   onEntryCalls |-> 0,                    \* options.onEntry invocations
   onErrorCalls |-> 0,                    \* options.onError invocations
   yieldedUnloaded |-> FALSE,             \* an API promise fulfilled with a module not loaded
   requires |-> 0, unloads |-> 0, clearCalls |-> 0, preloads |-> 0,
   fails |-> 0]                           \* API calls and failed fetches so far

Init ==
  /\ cfg \in Worlds
  /\ wrappers = <<>>
  /\ loadObjs = <<>>
  /\ moduleWrappers = [id \in Names |-> 0]
  /\ loads = [u \in Names |-> 0]
  /\ knownURLs = [n \in Names |-> "none"]
  /\ error = NoError
  /\ errorDetail = "none"
  /\ hasCalledOnEntry = FALSE
  /\ nextEntryId = 1
  /\ waiters = <<>>
  /\ queue = <<>>
  /\ clears = <<>>
  /\ hist = InitHist

(***************************************************************************)
(* Promises and the microtask queue.                                       *)
(***************************************************************************)
Settled(S, p) ==
  CASE p.k = "L" -> S.loadObjs[p.n].promise # "pending"
    [] p.k = "PP" -> S.wrappers[p.n].preparedPromise # "pending"
    [] p.k = "EP" -> S.wrappers[p.n].entryPromise # "pending"
    [] OTHER -> TRUE

Fulfilled(S, p) ==
  CASE p.k = "L" -> S.loadObjs[p.n].promise = "fulfilled"
    [] p.k = "PP" -> S.wrappers[p.n].preparedPromise = "fulfilled"
    [] p.k = "EP" -> S.wrappers[p.n].entryPromise = "fulfilled"
    [] p.k = "RES" -> TRUE
    [] OTHER -> FALSE

\* the wrapper a fulfilled promise yields
Value(S, p) == IF p.k = "L" THEN S.loadObjs[p.n].wrapper ELSE p.n

\* the error a rejected promise carries
Reason(S, p) ==
  CASE p.k = "L" -> S.loadObjs[p.n].reason
    [] p.k = "PP" -> S.wrappers[p.n].preparedError
    [] p.k = "EP" -> S.wrappers[p.n].entryError
    [] OTHER -> p.e

\* p.then(...) / p.catch(...): the reaction runs as a job once p is settled
Then(S, j) ==
  IF Settled(S, j.p)
    THEN [S EXCEPT !.queue = Append(@, j)]
    ELSE [S EXCEPT !.waiters = Append(@, j)]

\* p has just been settled: its reactions are queued in registration order
Settle(S, p) ==
  [S EXCEPT !.waiters = SelectSeq(@, LAMBDA j : j.p # p),
            !.queue = @ \o SelectSeq(S.waiters, LAMBDA j : j.p = p)]

NoIds == {}

(***************************************************************************)
(* DefaultResolver (its source is not under src/): a request is Available  *)
(* when knownURLs binds it to an id, and otherwise must be fetched under   *)
(* the request as URL.                                                     *)
(***************************************************************************)
resolve(S, request) ==
  [available |-> S.knownURLs[request] # "none",
   id |-> S.knownURLs[request],
   url |-> request]

registerResolvedURL(S, url, id) == [S EXCEPT !.knownURLs[url] = id]

registerId(S, id) == [S EXCEPT !.knownURLs[id] = id]

(***************************************************************************)
(* Polestar.setError and the test `if (this.error)`.                       *)
(***************************************************************************)
\* an engine that never tests this.error
NeverLatched(S) == FALSE

Latched(S) == S.error # NoError

\* setError as a one-shot cell: a latched error is kept
setErrorOneShot(S, e, detail) ==
  IF S.error # NoError THEN S
  ELSE [S EXCEPT !.error = e,
                 !.errorDetail = detail,
                 !.hist.onErrorCalls = @ + 1]

\* setError that reports every call
setErrorAlwaysReports(S, e, detail) ==
  [S EXCEPT !.error = e,
            !.errorDetail = detail,
            !.hist.onErrorCalls = @ + 1]

setError(S, e, detail) ==
  [S EXCEPT !.error = e,
            !.errorDetail = detail,
            !.hist.onErrorCalls = IF S.error # e THEN @ + 1 ELSE @]

(***************************************************************************)
(* Polestar.loadWrapper(url, requiredBy): the pair of the new state and    *)
(* the promise returned.  requiredBy = 0 stands for undefined.             *)
(***************************************************************************)
NewLoad(url, requiredBy) ==
  [url |-> url,
   requiredBy |-> IF requiredBy # 0 THEN <<requiredBy>> ELSE <<>>,
   fetch |-> "pending",       \* the Fetcher's promise
   promise |-> "pending",     \* preparedModuleWrapperPromise
   wrapper |-> 0,
   reason |-> NoError]

\* loadWrapper without its look-up of this.loads[url]
NoExistingLoad(S, url) == 0

\* let existingLoad = this.loads[url]
ExistingLoad(S, url) == S.loads[url]

loadWrapper(S, url, requiredBy) ==
  IF S.moduleWrappers[url] # 0
    THEN [S |-> S, p |-> ResolvedP(S.moduleWrappers[url])]
  ELSE IF ExistingLoad(S, url) # 0
    THEN [S |-> IF requiredBy # 0
                  THEN [S EXCEPT !.loadObjs[ExistingLoad(S, url)].requiredBy =
                                    Append(@, requiredBy)]
                  ELSE S,
          p |-> LoadP(ExistingLoad(S, url))]
  ELSE LET l == Len(S.loadObjs) + 1
       IN [S |-> [S EXCEPT !.loadObjs = Append(@, NewLoad(url, requiredBy)),
                           !.loads[url] = l,
                           !.hist.fetcherCalls[url] = @ + 1,
                           !.hist.latchedFetch = @ \/ Latched(S)],
           p |-> LoadP(l)]

(***************************************************************************)
(* ModuleWrapper.                                                          *)
(***************************************************************************)
NewWrapper(id, body, throws) ==
  [id |-> id,
   requiredBy |-> {},
   waitingFor |-> <<>>,
   isPrepared |-> FALSE,
   preparedPromise |-> "pending",
   preparedError |-> NoError,
   entryPromise |-> "none",     \* preparedPromise.then(handleUnrequiredPrepared)
   entryError |-> NoError,
   loaded |-> FALSE,            \* module.loaded
   preloaded |-> FALSE,
   body |-> body,               \* the requests fn passes to require
   throws |-> throws,           \* fn throws after them
   executeCalls |-> 0,          \* calls of execute()
   fnCalls |-> 0,               \* calls of fn
   executedPreparing |-> FALSE, \* execute() ran while isPrepared was not set
   finished |-> FALSE,          \* fn returned
   finishOrder |-> 0]           \* the how-manieth body to return it was

\* the position of key in seq, 0 when absent: Array.prototype.indexOf
indexOf(seq, key) ==
  IF \E i \in 1..Len(seq) : seq[i] = key
    THEN CHOOSE i \in 1..Len(seq) :
           seq[i] = key /\ \A k \in 1..(i - 1) : seq[k] # key
    ELSE 0

\* Array.prototype.splice(index, 1)
splice(seq, index) ==
  [i \in 1..(Len(seq) - 1) |-> IF i < index THEN seq[i] ELSE seq[i + 1]]

\* resolvePrepared(this): a settled promise ignores it
resolvePrepared(S, w) ==
  IF S.wrappers[w].preparedPromise = "pending"
    THEN Settle([S EXCEPT !.wrappers[w].preparedPromise = "fulfilled"],
                PreparedP(w))
    ELSE S

rejectPrepared(S, w, e) ==
  IF S.wrappers[w].preparedPromise = "pending"
    THEN Settle([S EXCEPT !.wrappers[w].preparedPromise = "rejected",
                          !.wrappers[w].preparedError = e],
                PreparedP(w))
    ELSE S

stopWaitingFor(S, w, url) ==
  LET index == indexOf(S.wrappers[w].waitingFor, url)
  IN IF index # 0
       THEN LET S1 == [S EXCEPT !.wrappers[w].waitingFor = splice(@, index)]
            IN IF Len(S1.wrappers[w].waitingFor) = 0
                 THEN resolvePrepared([S1 EXCEPT !.wrappers[w].isPrepared = TRUE], w)
                 ELSE S1
       ELSE S

\* the first loop of prepare and of addToRequiredBy
addAllRequiredBy(S, w, requiredByWrappers) ==
  LET direct == {requiredByWrappers[i] : i \in 1..Len(requiredByWrappers)}
  IN [S EXCEPT !.wrappers[w].requiredBy =
                  @ \cup direct \cup UNION {S.wrappers[r].requiredBy : r \in direct}]

Thrown(S, e) == [S |-> S, thrown |-> e]
Returns(S) == [S |-> S, thrown |-> NoError]

\* the second loop of prepare, from the i-th request on.  Reading
\* dependencyWrapper.isPrepared of a wrapper that is not registered throws.
RECURSIVE prepareDependencies(_, _, _, _)
prepareDependencies(S, w, dependencyRequests, i) ==
  IF i > Len(dependencyRequests) THEN Returns(S)
  ELSE
    LET request == dependencyRequests[i]
        result == resolve(S, request)
    IN IF result.available
         THEN LET dependencyWrapper == S.moduleWrappers[result.id]
              IN IF dependencyWrapper \in S.wrappers[w].requiredBy
                   THEN prepareDependencies(S, w, dependencyRequests, i + 1)
                 ELSE IF dependencyWrapper = 0
                   THEN Thrown(S, Err("TypeError", w))
                 ELSE IF ~S.wrappers[dependencyWrapper].isPrepared
                   THEN prepareDependencies(
                          Then([S EXCEPT !.wrappers[w].waitingFor = Append(@, result.id)],
                               Job("availableWait", PreparedP(dependencyWrapper),
                                   w, 0, result.id, 0, NoIds)),
                          w, dependencyRequests, i + 1)
                 ELSE prepareDependencies(S, w, dependencyRequests, i + 1)
         ELSE LET lw == loadWrapper(
                          [S EXCEPT !.wrappers[w].waitingFor = Append(@, result.url)],
                          result.url, w)
              IN prepareDependencies(
                   Then(lw.S, Job("loadWait", lw.p, w, 0, result.url, 0, NoIds)),
                   w, dependencyRequests, i + 1)

prepare(S, w, dependencyRequests, requiredByWrappers) ==
  LET r == prepareDependencies(addAllRequiredBy(S, w, requiredByWrappers),
                               w, dependencyRequests, 1)
  IN IF r.thrown # NoError THEN r
     ELSE IF Len(r.S.wrappers[w].waitingFor) = 0
       THEN Returns(resolvePrepared([r.S EXCEPT !.wrappers[w].isPrepared = TRUE], w))
     ELSE r

\* addToRequiredBy that merges nothing
addToRequiredByNothing(S, w, requiredByWrappers) == S

\* the second loop of addToRequiredBy: i runs over the live waitingFor array,
\* which stopWaitingFor shortens
RECURSIVE stopWaitingForRequiredBy(_, _, _)
stopWaitingForRequiredBy(S, w, i) ==
  IF i > Len(S.wrappers[w].waitingFor) THEN S
  ELSE
    LET waitingForURL == S.wrappers[w].waitingFor[i]
        result == resolve(S, waitingForURL)
    IN IF result.available
          /\ S.moduleWrappers[result.id] \in S.wrappers[w].requiredBy
         THEN stopWaitingForRequiredBy(stopWaitingFor(S, w, waitingForURL), w, i + 1)
         ELSE stopWaitingForRequiredBy(S, w, i + 1)

addToRequiredBy(S, w, requiredByWrappers) ==
  stopWaitingForRequiredBy(addAllRequiredBy(S, w, requiredByWrappers), w, 1)

\* require.resolve(request) of wrapper w: the state, the id or URL returned,
\* and the promise put in dynamicImports (NoPromise when nothing was put)
requireResolve(S, w, request) ==
  LET result == resolve(S, request)
  IN IF ~result.available
       THEN LET lw == loadWrapper(S, result.url, w)
            IN [S |-> lw.S, id |-> result.url, p |-> lw.p]
       ELSE [S |-> S, id |-> result.id, p |-> NoPromise]

(***************************************************************************)
(* execute() and the require function given to the module body.  The body  *)
(* of a module passes its requests to require in order and then returns    *)
(* or throws.  Each returns the new state and what was thrown.             *)
(***************************************************************************)
RECURSIVE execute(_, _)
RECURSIVE require(_, _, _)
RECURSIVE fn(_, _, _)

\* require that executes the requested wrapper whatever module.loaded is
AlwaysNotLoaded(loaded) == TRUE

\* if (!requestedWrapper.module.loaded) requestedWrapper.execute()
NotLoaded(loaded) == ~loaded

\* require without its test of id === requestedId
NoSelfRequire(id, requestedId) == FALSE

\* if (id === requestedId) throw new CyclicDependencyError(id)
SelfRequire(id, requestedId) == id = requestedId

require(S, w, request) ==
  LET rr == requireResolve(S, w, request)
      requestedWrapper == rr.S.moduleWrappers[rr.id]
  IN IF SelfRequire(S.wrappers[w].id, rr.id)
       THEN Thrown(rr.S, Err("CyclicDependencyError", w))
     ELSE IF requestedWrapper = 0
       THEN IF rr.p = NoPromise
              THEN Thrown(rr.S, Err("TypeError", w))
              ELSE Returns(Then(rr.S, Job("dynamicImport", rr.p, w, 0, request, 0, NoIds)))
     ELSE IF NotLoaded(rr.S.wrappers[requestedWrapper].loaded)
       THEN execute(rr.S, requestedWrapper)
     ELSE Returns(rr.S)

fn(S, w, i) ==
  IF i > Len(S.wrappers[w].body)
    THEN IF S.wrappers[w].throws
           THEN Thrown(S, Err("BodyError", w))
           ELSE Returns([S EXCEPT
                          !.wrappers[w].finished = TRUE,
                          !.wrappers[w].finishOrder =
                            1 + Cardinality({v \in 1..Len(S.wrappers) :
                                               S.wrappers[v].finished})])
    ELSE LET r == require(S, w, S.wrappers[w].body[i])
         IN IF r.thrown # NoError THEN r ELSE fn(r.S, w, i + 1)

\* execute() without its test of module.loaded
ExecuteUnguarded(loaded) == FALSE

\* if (module.loaded) throw new Error("Can't execute module ... twice.")
ExecuteGuard(loaded) == loaded

execute(S, w) ==
  IF ExecuteGuard(S.wrappers[w].loaded)
    THEN Thrown([S EXCEPT !.wrappers[w].executeCalls = @ + 1], Err("ExecutedTwice", w))
    ELSE fn([S EXCEPT !.wrappers[w].loaded = TRUE,
                      !.wrappers[w].executeCalls = @ + 1,
                      !.wrappers[w].fnCalls = @ + 1,
                      !.wrappers[w].executedPreparing = ~S.wrappers[w].isPrepared],
            w, 1)

\* a preload that leaves module.loaded unset
markPreloadedUnloaded(S, w) == [S EXCEPT !.wrappers[w].preloaded = TRUE]

\* else { moduleWrapper.module.loaded = true } of prepareModuleWrapper
markPreloaded(S, w) ==
  [S EXCEPT !.wrappers[w].loaded = TRUE, !.wrappers[w].preloaded = TRUE]

(***************************************************************************)
(* Polestar.prepareModuleWrapper: the new state and the promise returned.  *)
(* The css and the compilation of the code are left to the host.           *)
(***************************************************************************)
prepareModuleWrapper(S, id, dependencies, body, throws, requiredBy, isPreloadModule) ==
  IF Latched(S) THEN [S |-> S, p |-> RejectedP(S.error)]
  ELSE
    LET w == Len(S.wrappers) + 1
        S1 == [registerId(S, id) EXCEPT
                 !.wrappers = Append(@, NewWrapper(id, body, throws)),
                 !.moduleWrappers[id] = w]
        r == prepare(S1, w, dependencies, requiredBy)
    IN IF r.thrown # NoError
         THEN [S |-> setError(r.S, r.thrown, id), p |-> RejectedP(r.thrown)]
       ELSE IF ~isPreloadModule
         THEN IF Len(requiredBy) = 0
                THEN LET S2 == Then(r.S, Job("catchPrepared", PreparedP(w), w, 0, id, 0, NoIds))
                         S3 == Then([S2 EXCEPT !.wrappers[w].entryPromise = "pending"],
                                    Job("handleUnrequiredPrepared", PreparedP(w), w, 0, id, 0, NoIds))
                         S4 == Then(S3, Job("catchEntry", EntryP(w), w, 0, id, 0, NoIds))
                     IN [S |-> S4, p |-> EntryP(w)]
                ELSE [S |-> r.S, p |-> PreparedP(w)]
       ELSE [S |-> markPreloaded(r.S, w), p |-> PreparedP(w)]

(***************************************************************************)
(* Polestar.handleFetchResult for the result of load l's fetch: the new    *)
(* state and either the promise returned or what was thrown (reading       *)
(* load.requiredBy of a load that is no longer registered throws).         *)
(***************************************************************************)
handleFetchResult(S, l) ==
  IF Latched(S) THEN [S |-> S, p |-> RejectedP(S.error), thrown |-> NoError]
  ELSE
    LET url == S.loadObjs[l].url
        id == IdOf(url)
        load == S.loads[url]
        S1 == registerResolvedURL(S, url, id)
        moduleWrapper == S1.moduleWrappers[id]
    IN IF load = 0
         THEN [S |-> S1, p |-> NoPromise, thrown |-> Err("TypeError", l)]
       ELSE IF moduleWrapper # 0
         THEN [S |-> addToRequiredBy(S1, moduleWrapper, S1.loadObjs[load].requiredBy),
               p |-> ResolvedP(moduleWrapper), thrown |-> NoError]
       ELSE LET r == prepareModuleWrapper(S1, id, DepsOf(S.cfg, id), BodyOf(S.cfg, id),
                                          ThrowsOf(S.cfg, id),
                                          S1.loadObjs[load].requiredBy, FALSE)
            IN [S |-> r.S, p |-> r.p, thrown |-> NoError]

\* the load promise of l takes the outcome of promise p
adopt(S, l, p) ==
  Settle(IF Fulfilled(S, p)
           THEN [S EXCEPT !.loadObjs[l].promise = "fulfilled",
                          !.loadObjs[l].wrapper = Value(S, p)]
           ELSE [S EXCEPT !.loadObjs[l].promise = "rejected",
                          !.loadObjs[l].reason = Reason(S, p)],
         LoadP(l))

(***************************************************************************)
(* Polestar.handleUnrequiredPrepared, as the reaction that settles         *)
(* preparedPromise.then(this.handleUnrequiredPrepared).                    *)
(***************************************************************************)
CallOnEntry(S) ==
  IF ~S.hasCalledOnEntry THEN [S EXCEPT !.hist.onEntryCalls = @ + 1] ELSE S

handleUnrequiredPrepared(S, w) ==
  LET r == execute(CallOnEntry(S), w)
  IN Settle(IF r.thrown = NoError
              THEN [r.S EXCEPT !.wrappers[w].entryPromise = "fulfilled"]
              ELSE [r.S EXCEPT !.wrappers[w].entryPromise = "rejected",
                               !.wrappers[w].entryError = r.thrown],
            EntryP(w))

(***************************************************************************)
(* clearError's bookkeeping: one record per call.                          *)
(***************************************************************************)
\* the members of set as a sequence, by increasing key[x]
RECURSIVE InOrder(_, _)
InOrder(set, key) ==
  IF set = {} THEN <<>>
  ELSE LET first == CHOOSE x \in set : \A y \in set : key[x] <= key[y]
       IN <<first>> \o InOrder(set \ {first}, key)

RECURSIVE ThenAll(_, _, _)
ThenAll(S, jobs, i) ==
  IF i > Len(jobs) THEN S ELSE ThenAll(Then(S, jobs[i]), jobs, i + 1)

\* Object.keys(this.loads), Object.keys(this.moduleWrappers)
LoadKeys(S) == InOrder({u \in Names : S.loads[u] # 0}, S.loads)
WrapperKeys(S) == InOrder({id \in Names : S.moduleWrappers[id] # 0}, S.moduleWrappers)

\* one awaited promise of clearError c has settled: when none is left, the
\* call goes on with its next part
clearSettled(S, c, next) ==
  LET S1 == [S EXCEPT !.clears[c].pending = @ - 1]
  IN IF S1.clears[c].pending = 0
       THEN [S1 EXCEPT !.queue = Append(@, Job(next, NoPromise, 0, c, "", 0, NoIds))]
       ELSE S1

\* the second part of clearError c: the wrappers whose preparedPromise rejects
clearWrappers(S, c) ==
  LET keys == WrapperKeys(S)
      jobs == [i \in 1..Len(keys) |->
                 Job("clearWrapper", PreparedP(S.moduleWrappers[keys[i]]), 0, c,
                     keys[i], 0, NoIds)]
      S1 == [S EXCEPT !.clears[c].part = "wrappers", !.clears[c].pending = Len(keys)]
  IN IF Len(keys) = 0
       THEN [S1 EXCEPT !.queue = Append(@, Job("clearResolver", NoPromise, 0, c, "", 0, NoIds))]
       ELSE ThenAll(S1, jobs, 1)

\* the last part of clearError c: the URL bindings of the wrappers removed
clearResolver(S, c) ==
  [S EXCEPT !.knownURLs = [n \in Names |->
                             IF S.knownURLs[n] \in S.clears[c].moduleIds
                               THEN "none" ELSE S.knownURLs[n]],
            !.clears[c].part = "done"]

(***************************************************************************)
(* One job of the microtask queue.                                         *)
(***************************************************************************)
Requeue(S, j) == [S EXCEPT !.queue = Append(@, [j EXCEPT !.stage = @ + 1])]

RunJob(S, j) ==
  CASE j.k = "handleFetchResult" ->
         \* fetcher(url, ...).then(this.handleFetchResult)
         LET r == handleFetchResult(S, j.l)
         IN IF r.thrown # NoError
              THEN adopt(r.S, j.l, RejectedP(r.thrown))
              ELSE [r.S EXCEPT !.queue = Append(@, Job("resolveThenable", r.p, 0, j.l, "", 0, NoIds))]
    [] j.k = "resolveThenable" ->
         \* the promise returned by handleFetchResult is followed
         Then(S, Job("adopt", j.p, 0, j.l, "", 0, NoIds))
    [] j.k = "adopt" -> adopt(S, j.l, j.p)
    [] j.k = "loadWait" ->
         \* loadWrapper(url, this, request).then(() => this.stopWaitingFor(url))
         \*   .catch(this.rejectPrepared)
         IF Fulfilled(S, j.p) THEN stopWaitingFor(S, j.w, j.s)
         ELSE IF j.stage = 0 THEN Requeue(S, j)
         ELSE rejectPrepared(S, j.w, Reason(S, j.p))
    [] j.k = "availableWait" ->
         \* dependencyWrapper.preparedPromise.then(getWrapperId)
         \*   .then(this.stopWaitingFor).catch(this.rejectPrepared)
         IF j.stage = 0 THEN Requeue(S, j)
         ELSE IF Fulfilled(S, j.p) THEN stopWaitingFor(S, j.w, j.s)
         ELSE IF j.stage = 1 THEN Requeue(S, j)
         ELSE rejectPrepared(S, j.w, Reason(S, j.p))
    [] j.k = "catchPrepared" ->
         \* preparedPromise.catch(error => this.setError(error, { errorModuleId: id }))
         IF Fulfilled(S, j.p) THEN S ELSE setError(S, Reason(S, j.p), j.s)
    [] j.k = "handleUnrequiredPrepared" ->
         \* preparedPromise.then(this.handleUnrequiredPrepared)
         IF Fulfilled(S, j.p) THEN handleUnrequiredPrepared(S, j.w)
         ELSE Settle([S EXCEPT !.wrappers[j.w].entryPromise = "rejected",
                               !.wrappers[j.w].entryError = Reason(S, j.p)],
                     EntryP(j.w))
    [] j.k = "catchEntry" ->
         IF Fulfilled(S, j.p) THEN S ELSE setError(S, Reason(S, j.p), j.s)
    [] j.k = "getModule" ->
         \* .then(getModule) of evaluate and of Polestar.require, and the
         \* modulePromise.catch(this.setError) of Polestar.require
         IF Fulfilled(S, j.p)
           THEN [S EXCEPT !.hist.yieldedUnloaded =
                             @ \/ ~S.wrappers[Value(S, j.p)].loaded]
         ELSE IF j.s = "evaluate" THEN S
         ELSE IF j.stage = 0 THEN Requeue(S, j)
         ELSE setError(S, Reason(S, j.p), "none")
    [] j.k = "dynamicImport" ->
         \* this.dynamicImports.get(request).then(moduleWrapper => ...)
         IF Fulfilled(S, j.p) /\ ~S.wrappers[Value(S, j.p)].loaded
           THEN execute(S, Value(S, j.p)).S
           ELSE S
    [] j.k = "unloadAwait" ->
         \* await this.loads[url].preparedModuleWrapperPromise in unload
         IF Fulfilled(S, j.p) /\ S.wrappers[Value(S, j.p)].id \in j.ids
           THEN [S EXCEPT !.loads[j.s] = 0]
           ELSE S
    [] j.k = "clearLoad" ->
         \* preparedModuleWrapperPromise.catch(error => { delete this.loads[url] })
         clearSettled(IF Fulfilled(S, j.p) THEN S ELSE [S EXCEPT !.loads[j.s] = 0],
                      j.l, "clearWrappers")
    [] j.k = "clearWrappers" -> clearWrappers(S, j.l)
    [] j.k = "clearWrapper" ->
         \* preparedPromise.catch(error => { moduleIds.add(id); delete ... })
         clearSettled(IF Fulfilled(S, j.p) THEN S
                      ELSE [S EXCEPT !.moduleWrappers[j.s] = 0,
                                     !.clears[j.l].moduleIds = @ \cup {j.s}],
                      j.l, "clearResolver")
    [] j.k = "clearResolver" -> clearResolver(S, j.l)

(***************************************************************************)
(* Polestar.unload(id).                                                    *)
(***************************************************************************)
\* prepareUnloadModuleWrapper(moduleWrapper), from the k-th wrapper on: the
\* ids collected, starting from modulesToUnload
RECURSIVE prepareUnloadModuleWrapper(_, _, _, _)
prepareUnloadModuleWrapper(S, modulesToUnload, moduleWrapper, k) ==
  IF moduleWrapper = 0 \/ k > Len(S.wrappers) THEN modulesToUnload
  ELSE IF k \in S.wrappers[moduleWrapper].requiredBy
          /\ S.wrappers[k].id \notin modulesToUnload
    THEN prepareUnloadModuleWrapper(
           S,
           prepareUnloadModuleWrapper(S, modulesToUnload \cup {S.wrappers[k].id}, k, 1),
           moduleWrapper, k + 1)
    ELSE prepareUnloadModuleWrapper(S, modulesToUnload, moduleWrapper, k + 1)

ModulesToUnload(S, id) ==
  prepareUnloadModuleWrapper(S, {id}, S.moduleWrappers[id], 1)

unload(S, id) ==
  LET modulesToUnload == ModulesToUnload(S, id)
      keys == LoadKeys(S)
      jobs == [i \in 1..Len(keys) |->
                 Job("unloadAwait", LoadP(S.loads[keys[i]]), 0, 0, keys[i], 0,
                     modulesToUnload)]
      S1 == ThenAll(S, jobs, 1)
  IN [S1 EXCEPT
        !.moduleWrappers = [n \in Names |->
                              IF n \in modulesToUnload THEN 0 ELSE S1.moduleWrappers[n]],
        !.knownURLs = [n \in Names |->
                         IF S1.knownURLs[n] \in modulesToUnload
                           THEN "none" ELSE S1.knownURLs[n]]]

(***************************************************************************)
(* Polestar.clearError(), up to its first await.  The record of the call   *)
(* also keeps the loads and the wrappers that were registered when it was  *)
(* made.                                                                   *)
(***************************************************************************)
\* the body of `if (this.error) { ... }`
clearLoads(S) ==
  LET c == Len(S.clears) + 1
      keys == LoadKeys(S)
      jobs == [i \in 1..Len(keys) |->
                 Job("clearLoad", LoadP(S.loads[keys[i]]), 0, c, keys[i], 0, NoIds)]
      S1 == [S EXCEPT !.error = NoError,
                      !.clears = Append(@, [part |-> "loads",
                                            pending |-> Len(keys),
                                            moduleIds |-> {},
                                            loadsAtCall |-> {S.loads[u] : u \in Names} \ {0},
                                            wrappersAtCall |->
                                              {S.moduleWrappers[n] : n \in Names} \ {0}])]
  IN IF Len(keys) = 0
       THEN [S1 EXCEPT !.queue = Append(@, Job("clearWrappers", NoPromise, 0, c, "", 0, NoIds))]
       ELSE ThenAll(S1, jobs, 1)

\* clearError without its test of this.error
clearErrorUnguarded(S) == clearLoads(S)

clearError(S) == IF Latched(S) THEN clearLoads(S) ELSE S

(***************************************************************************)
(* The public calls that return promises of modules.                       *)
(***************************************************************************)
evaluate(S, dependencies) ==
  LET id == EntryId(S.nextEntryId)
      r == prepareModuleWrapper([S EXCEPT !.nextEntryId = @ + 1], id, dependencies,
                                dependencies, FALSE, <<>>, FALSE)
  IN Then(r.S, Job("getModule", r.p, 0, 0, "evaluate", 0, NoIds))

PolestarRequire(S, request) ==
  LET resolution == resolve(S, request)
      url == IF resolution.available THEN resolution.id ELSE resolution.url
      lw == loadWrapper(S, url, 0)
  IN Then(lw.S, Job("getModule", lw.p, 0, 0, "require", 0, NoIds))

preloadModule(S, id) ==
  prepareModuleWrapper(S, id, <<>>, <<>>, FALSE, <<>>, TRUE).S

(***************************************************************************)
(* The actions.  The event loop runs a task only when no microtask is      *)
(* left.                                                                   *)
(***************************************************************************)
Idle == queue = <<>>

Evaluate ==
  /\ Idle
  /\ nextEntryId <= MaxEntries
  /\ \E dependencies \in EntryDeps(cfg) : Becomes(evaluate(State, dependencies))

Require ==
  /\ Idle
  /\ hist.requires < MaxRequires
  /\ \E request \in RequireRequests(cfg) :
       Becomes(PolestarRequire([State EXCEPT !.hist.requires = @ + 1], request))

PreloadModule ==
  /\ Idle
  /\ hist.preloads < MaxPreloads
  /\ \E id \in PreloadIds(cfg) :
       Becomes(preloadModule([State EXCEPT !.hist.preloads = @ + 1], id))

Unload ==
  /\ Idle
  /\ hist.unloads < MaxUnloads
  /\ \E id \in UnloadIds(cfg) :
       Becomes(unload([State EXCEPT !.hist.unloads = @ + 1], id))

ClearError ==
  /\ Idle
  /\ hist.clearCalls < MaxClears
  /\ Becomes(clearError([State EXCEPT !.hist.clearCalls = @ + 1]))

\* the Fetcher's promise for load l fulfils with the FetchResult
FetchCompletes ==
  /\ Idle
  /\ \E l \in 1..Len(loadObjs) :
       /\ loadObjs[l].fetch = "pending"
       /\ Becomes([State EXCEPT
                     !.loadObjs[l].fetch = "fulfilled",
                     !.queue = Append(@, Job("handleFetchResult", NoPromise, 0, l, "", 0, NoIds))])

\* the Fetcher's promise for load l rejects
FetchFails ==
  /\ Idle
  /\ hist.fails < MaxFails
  /\ \E l \in 1..Len(loadObjs) :
       /\ loadObjs[l].fetch = "pending"
       /\ Becomes([State EXCEPT
                     !.loadObjs[l].fetch = "rejected",
                     !.hist.fails = @ + 1,
                     !.queue = Append(@, Job("adopt", RejectedP(Err("FetchError", l)), 0, l, "", 0, NoIds))])

\* the next job of the microtask queue runs
Microtask ==
  /\ queue # <<>>
  /\ Becomes(RunJob([State EXCEPT !.queue = Tail(@)], Head(queue)))

Next ==
  \/ Evaluate
  \/ Require
  \/ PreloadModule
  \/ Unload
  \/ ClearError
  \/ FetchCompletes
  \/ FetchFails
  \/ Microtask

Spec == Init /\ [][Next]_vars

(***************************************************************************)
(* The properties.                                                          *)
(***************************************************************************)
Wrappers == 1..Len(wrappers)
Loads == 1..Len(loadObjs)

\* no fetch is in flight and no job is queued
Quiescent == queue = <<>> /\ \A l \in Loads : loadObjs[l].fetch # "pending"

\* C1: the body fn of a wrapper is invoked at most once: module.loaded is
\* set (false -> true) in the step that invokes fn, fn is invoked only on a
\* wrapper whose module.loaded was false, and module.loaded never goes back
\* to false.
C1_FnAtMostOnce ==
  [][\A w \in 1..Len(wrappers') :
       /\ wrappers'[w].fnCalls <= 1
       /\ wrappers'[w].fnCalls = 1 => wrappers'[w].loaded
       /\ w \in Wrappers =>
            /\ wrappers[w].loaded => wrappers'[w].loaded
            /\ wrappers'[w].fnCalls > wrappers[w].fnCalls => ~wrappers[w].loaded]_vars

\* C1 witness: execute() was called again on a wrapper whose body had run
C1_Witness ==
  \E w \in Wrappers : wrappers[w].executeCalls >= 2 /\ wrappers[w].fnCalls = 1

\* C2: execute() is invoked at most once per wrapper (the "Can't execute
\* module twice" error is never thrown).
C2_ExecuteAtMostOnce == \A w \in Wrappers : wrappers[w].executeCalls <= 1

\* C3: onEntry fires at most once per loader instance, and no entry point
\* has been executed before it fires.
C3_OnEntryOnce ==
  /\ hist.onEntryCalls <= 1
  /\ (\E w \in Wrappers : wrappers[w].entryPromise \in {"fulfilled", "rejected"}
                          /\ wrappers[w].preparedPromise = "fulfilled")
       => hist.onEntryCalls >= 1

\* the worlds whose dependency graph contains a cycle
CyclicWorld == cfg \in {2, 4, 5}

\* C4: cycle termination: in a graph with cycles, when every fetch has
\* completed successfully, no body has thrown and nothing was unloaded,
\* preloaded or cleared, every entry point has been executed once the
\* engine has nothing left to do.
C4_CycleTermination ==
  (/\ CyclicWorld
   /\ Quiescent
   /\ hist.fails = 0 /\ hist.unloads = 0 /\ hist.preloads = 0 /\ hist.clearCalls = 0
   /\ hist.onErrorCalls = 0)
    => \A w \in Wrappers : wrappers[w].entryPromise # "none" => wrappers[w].loaded

\* the members of a sequence
Range(seq) == {seq[i] : i \in 1..Len(seq)}

\* the reactions registered by the step
NewJobs == Range(waiters' \o queue') \ Range(waiters \o queue)

\* the step runs the job at the head of the queue, of this kind
Runs(kind) == queue # <<>> /\ Head(queue).k = kind

\* C5: load dedup: the Fetcher is invoked for a URL only when no load is
\* registered for it, and then once; a registered load leaves loads only in
\* unload or clearError; and every consumer that calls loadWrapper(u) gets
\* the promise of the load registered for u, the one that was registered
\* before the call if there was one.
C5_LoadDedup ==
  [][/\ \A u \in Names :
          /\ hist'.fetcherCalls[u] > hist.fetcherCalls[u] =>
               /\ loads[u] = 0
               /\ hist'.fetcherCalls[u] = hist.fetcherCalls[u] + 1
               /\ loads'[u] > Len(loadObjs)
               /\ loadObjs'[loads'[u]].url = u
          /\ (loads[u] # 0 /\ loads'[u] # loads[u]) =>
               (Runs("unloadAwait") \/ Runs("clearLoad"))
     /\ \A j \in NewJobs :
          (j.k \in {"loadWait", "dynamicImport", "getModule"} /\ j.stage = 0
             /\ j.p.k = "L") =>
            LET u == loadObjs'[j.p.n].url
            IN /\ loads'[u] = j.p.n
               /\ loads[u] # 0 => j.p.n = loads[u]]_vars

\* C5 witness: two consumers share the one fetch of a URL
C5_Witness ==
  \E l \in Loads :
    /\ Len(loadObjs[l].requiredBy) >= 2
    /\ hist.fetcherCalls[loadObjs[l].url] = 1
    /\ loads[loadObjs[l].url] = l

\* C6: while an error is latched the Fetcher is not invoked.
C6_NoFetchWhileLatched == ~hist.latchedFetch

\* C7: while an error is latched no wrapper is created or registered; a
\* fetch result that arrives is rejected with the latched error and leaves
\* the URL bindings, the wrappers and their requiredBy sets as they were;
\* and once the jobs have run, the wrappers waiting for a load whose result
\* was rejected have their preparedPromise rejected.
C7_LatchedRejects ==
  /\ [][error # NoError =>
          /\ Len(wrappers') = Len(wrappers)
          /\ \A id \in Names : moduleWrappers[id] = 0 => moduleWrappers'[id] = 0
          /\ Runs("handleFetchResult") =>
               /\ knownURLs' = knownURLs
               /\ wrappers' = wrappers
               /\ moduleWrappers' = moduleWrappers
               /\ queue' = Append(Tail(queue),
                                  Job("resolveThenable", RejectedP(error), 0,
                                      Head(queue).l, "", 0, NoIds))]_vars
  /\ [](queue = <<>> =>
          \A l \in Loads :
            (loadObjs[l].fetch = "fulfilled" /\ loadObjs[l].promise = "rejected") =>
              \A w \in Range(loadObjs[l].requiredBy) :
                loadObjs[l].url \in Range(wrappers[w].waitingFor) =>
                  wrappers[w].preparedPromise = "rejected")

\* C7 witness: a fetch result arrived while the error was latched: its load
\* is rejected with the latched error, its URL is not bound, and the wrapper
\* waiting for it is rejected
C7_Witness ==
  /\ error # NoError
  /\ queue = <<>>
  /\ \E l \in Loads :
       /\ loadObjs[l].fetch = "fulfilled"
       /\ loadObjs[l].promise = "rejected"
       /\ loadObjs[l].reason = error
       /\ knownURLs[loadObjs[l].url] = "none"
       /\ moduleWrappers[IdOf(loadObjs[l].url)] = 0
       /\ \E w \in Range(loadObjs[l].requiredBy) :
            /\ loadObjs[l].url \in Range(wrappers[w].waitingFor)
            /\ wrappers[w].preparedPromise = "rejected"

\* C8: identity dedup: a fetch result whose id is already registered creates
\* no wrapper and yields the registered one, whose requiredBy keeps what it
\* had and gains every wrapper that asked for the result's URL; a fetch
\* result creates a wrapper only for an id that is not registered, with the
\* wrappers that asked for its URL in requiredBy; and the requiredBy of the
\* wrapper a registered load has yielded contains every wrapper that called
\* loadWrapper for the load's URL.
C8_IdentityDedup ==
  /\ [][(Runs("handleFetchResult") /\ error = NoError
           /\ loads[loadObjs[Head(queue).l].url] # 0) =>
          LET load == loads[loadObjs[Head(queue).l].url]
              id == IdOf(loadObjs[Head(queue).l].url)
              moduleWrapper == moduleWrappers[id]
          IN IF moduleWrapper # 0
               THEN /\ Len(wrappers') = Len(wrappers)
                    /\ moduleWrappers' = moduleWrappers
                    /\ wrappers[moduleWrapper].requiredBy
                         \subseteq wrappers'[moduleWrapper].requiredBy
                    /\ Range(loadObjs[load].requiredBy)
                         \subseteq wrappers'[moduleWrapper].requiredBy
                    /\ queue'[Len(queue')].p = ResolvedP(moduleWrapper)
               ELSE /\ Len(wrappers') = Len(wrappers) + 1
                    /\ moduleWrappers'[id] = Len(wrappers')
                    /\ wrappers'[Len(wrappers')].id = id
                    /\ Range(loadObjs[load].requiredBy)
                         \subseteq wrappers'[Len(wrappers')].requiredBy]_vars
  /\ [](\A l \in Loads :
          (/\ loads[loadObjs[l].url] = l
           /\ loadObjs[l].promise = "fulfilled"
           /\ moduleWrappers[IdOf(loadObjs[l].url)] = loadObjs[l].wrapper) =>
            Range(loadObjs[l].requiredBy) \subseteq wrappers[loadObjs[l].wrapper].requiredBy)

\* C8 witness: two loads of different URLs have yielded the one wrapper ever
\* created for their id, and each was asked for by a wrapper of its own
C8_Witness ==
  \E l1, l2 \in Loads :
    /\ loadObjs[l1].url # loadObjs[l2].url
    /\ loadObjs[l1].promise = "fulfilled" /\ loadObjs[l2].promise = "fulfilled"
    /\ loadObjs[l1].wrapper = loadObjs[l2].wrapper
    /\ Cardinality({w \in Wrappers : wrappers[w].id = IdOf(loadObjs[l1].url)}) = 1
    /\ Range(loadObjs[l1].requiredBy) # {}
    /\ Range(loadObjs[l2].requiredBy) # {}
    /\ Range(loadObjs[l1].requiredBy) # Range(loadObjs[l2].requiredBy)
    /\ Range(loadObjs[l1].requiredBy) \cup Range(loadObjs[l2].requiredBy)
         \subseteq wrappers[loadObjs[l1].wrapper].requiredBy

\* the ids that wrapper w depends on, directly or through registered
\* wrappers, by the requests of the bodies (seen: the ids already followed)
RECURSIVE DependsOn(_, _)
DependsOn(w, seen) ==
  LET direct == {IdOf(r) : r \in Range(wrappers[w].body)}
      fresh == direct \ seen
  IN direct \cup
       UNION {DependsOn(moduleWrappers[i], seen \cup direct) :
                i \in {i \in fresh : moduleWrappers[i] # 0}}

\* every registered wrapper is Prepared and was fetched or evaluated
AllPrepared ==
  /\ hist.preloads = 0 /\ hist.fails = 0 /\ hist.clearCalls = 0
  /\ \A n \in Names : moduleWrappers[n] # 0 => wrappers[moduleWrappers[n]].isPrepared

\* C9: unload cascade: when unload(id) is called on an engine at rest, in
\* which every registered wrapper is Prepared, no wrapper that directly or
\* transitively depends on id stays registered, and neither does id.
C9_UnloadCascade ==
  [][(hist'.unloads > hist.unloads /\ Quiescent /\ error = NoError /\ AllPrepared) =>
       \A id \in UnloadIds(cfg) :
         /\ moduleWrappers'[id] = 0
         /\ \A n \in Names :
              moduleWrappers'[n] # 0 => id \notin DependsOn(moduleWrappers'[n], {})]_vars

\* C10: clearError called while an error is latched clears the error; its
\* jobs remove only loads whose promise rejected and wrappers whose
\* preparedPromise rejected, and unbind only ids without a wrapper; when it
\* completes, every load and wrapper that was registered at the call and
\* has rejected is no longer registered and no URL is bound to such a
\* wrapper's id; called with no error latched it changes nothing.
C10_ClearError ==
  [][/\ (hist'.clearCalls > hist.clearCalls /\ error # NoError) => error' = NoError
     /\ (hist'.clearCalls > hist.clearCalls /\ error = NoError) =>
          /\ UNCHANGED <<cfg, wrappers, loadObjs, moduleWrappers, loads, knownURLs,
                         error, errorDetail, hasCalledOnEntry, nextEntryId, waiters,
                         queue, clears>>
          /\ hist' = [hist EXCEPT !.clearCalls = @ + 1]
     /\ Runs("clearLoad") =>
          \A u \in Names :
            loads'[u] # loads[u] =>
              /\ loads'[u] = 0
              /\ loadObjs[loads[u]].promise = "rejected"
     /\ Runs("clearWrapper") =>
          \A n \in Names :
            moduleWrappers'[n] # moduleWrappers[n] =>
              /\ moduleWrappers'[n] = 0
              /\ wrappers[moduleWrappers[n]].preparedPromise = "rejected"
     /\ Runs("clearResolver") =>
          /\ \A n \in Names :
               knownURLs'[n] # knownURLs[n] =>
                 /\ knownURLs'[n] = "none"
                 /\ moduleWrappers[knownURLs[n]] = 0
          /\ \A l \in clears[Head(queue).l].loadsAtCall :
               loadObjs[l].promise = "rejected" => loads'[loadObjs[l].url] # l
          /\ \A w \in clears[Head(queue).l].wrappersAtCall :
               wrappers[w].preparedPromise = "rejected" =>
                 /\ moduleWrappers'[wrappers[w].id] # w
                 /\ moduleWrappers'[wrappers[w].id] = 0 =>
                      \A n \in Names : knownURLs'[n] # wrappers[w].id]_vars

\* C10 witness: a clearError call has completed: a rejected load and a
\* rejected wrapper that were registered at the call are gone, a fulfilled
\* load and its wrapper are still registered, and no error is latched
C10_Witness ==
  /\ error = NoError
  /\ \E c \in 1..Len(clears) :
       /\ clears[c].part = "done"
       /\ \E l \in clears[c].loadsAtCall :
            loadObjs[l].promise = "rejected" /\ loads[loadObjs[l].url] = 0
       /\ \E w \in clears[c].wrappersAtCall :
            /\ wrappers[w].preparedPromise = "rejected"
            /\ moduleWrappers[wrappers[w].id] = 0
            /\ knownURLs[wrappers[w].id] = "none"
       /\ \E l \in clears[c].loadsAtCall :
            /\ loadObjs[l].promise = "fulfilled"
            /\ loads[loadObjs[l].url] = l
            /\ moduleWrappers[wrappers[loadObjs[l].wrapper].id] = loadObjs[l].wrapper

\* the body of wrapper w passes a request for its own id to require
SelfRequiring(w) ==
  \E i \in 1..Len(wrappers[w].body) : IdOf(wrappers[w].body[i]) = wrappers[w].id

\* C11: self-require: the step that runs a body requiring its own id
\* invokes no Fetcher and executes the wrapper no second time; the body does
\* not finish, nor does any body of the require chain above it; the entry
\* point being executed is rejected with CyclicDependencyError(id), and the
\* reaction to that rejection latches the error and reports it to onError.
C11_SelfRequire ==
  [][/\ \A w \in Wrappers :
          (SelfRequiring(w) /\ wrappers'[w].fnCalls > wrappers[w].fnCalls) =>
            /\ hist'.fetcherCalls = hist.fetcherCalls
            /\ wrappers'[w].executeCalls = wrappers[w].executeCalls + 1
            /\ ~wrappers'[w].finished
            /\ Runs("handleUnrequiredPrepared") =>
                 /\ wrappers'[Head(queue).w].entryPromise = "rejected"
                 /\ wrappers'[Head(queue).w].entryError = Err("CyclicDependencyError", w)
                 /\ \A v \in Wrappers :
                      wrappers'[v].fnCalls > wrappers[v].fnCalls => ~wrappers'[v].finished
                 /\ \E i \in 1..Len(queue') :
                      queue'[i].k = "catchEntry" /\ queue'[i].w = Head(queue).w
     /\ (/\ Runs("catchEntry")
         /\ wrappers[Head(queue).w].entryPromise = "rejected"
         /\ wrappers[Head(queue).w].entryError.k = "CyclicDependencyError") =>
          /\ error' = wrappers[Head(queue).w].entryError
          /\ errorDetail' = wrappers[Head(queue).w].id
          /\ hist'.onErrorCalls =
               hist.onErrorCalls
                 + (IF error # wrappers[Head(queue).w].entryError THEN 1 ELSE 0)]_vars

\* C11 witness: a body required its own id below an entry point: the entry
\* point is rejected with the CyclicDependencyError of that wrapper, which is
\* latched and was reported
C11_Witness ==
  \E w, e \in Wrappers :
    /\ w # e
    /\ SelfRequiring(w)
    /\ wrappers[w].fnCalls = 1 /\ ~wrappers[w].finished
    /\ wrappers[e].entryError = Err("CyclicDependencyError", w)
    /\ error = Err("CyclicDependencyError", w)
    /\ hist.onErrorCalls >= 1

\* the step runs a reaction that calls setError with the reason of a
\* rejected promise: the two catches of an entry point and the catch of
\* Polestar.require
CallsSetError ==
  /\ queue # <<>>
  /\ ~Fulfilled(State, Head(queue).p)
  /\ \/ Head(queue).k \in {"catchPrepared", "catchEntry"}
     \/ Head(queue).k = "getModule" /\ Head(queue).s = "require" /\ Head(queue).stage = 1

\* C12: setError is idempotent against the same error value: a call with
\* the latched value leaves the error as it is and does not invoke onError;
\* a call with another value invokes onError exactly once.
C12_SetErrorIdempotent ==
  [][CallsSetError =>
       LET e == Reason(State, Head(queue).p)
       IN /\ error' = e
          /\ error = e => hist'.onErrorCalls = hist.onErrorCalls
          /\ error # e => hist'.onErrorCalls = hist.onErrorCalls + 1]_vars

\* C12 witness: both catches of an entry point have called setError with the
\* same error, and onError was invoked once
C12_Witness ==
  /\ queue = <<>>
  /\ hist.onErrorCalls = 1
  /\ \E w \in Wrappers :
       /\ wrappers[w].preparedPromise = "rejected"
       /\ wrappers[w].entryPromise = "rejected"
       /\ wrappers[w].preparedError = error
       /\ wrappers[w].entryError = error

\* C13: the error latch is a one-shot cell: while an error is latched, a
\* step that is not a clearError call neither replaces the latched error nor
\* invokes onError.
C13_OneShotLatch ==
  [][(error # NoError /\ hist'.clearCalls = hist.clearCalls) =>
       /\ error' = error
       /\ hist'.onErrorCalls = hist.onErrorCalls]_vars

\* C13 as the code has it: the latch holds the error of the latest setError
\* call: every call stores its error and its errorDetail, onError is invoked
\* in exactly the steps that change the latched value, and only a
\* clearError call empties the latch.
C13_LatestErrorLatched ==
  [][hist'.clearCalls = hist.clearCalls =>
       /\ error # NoError => error' # NoError
       /\ error' # error => hist'.onErrorCalls = hist.onErrorCalls + 1
       /\ error' = error => hist'.onErrorCalls = hist.onErrorCalls
       /\ CallsSetError =>
            /\ error' = Reason(State, Head(queue).p)
            /\ errorDetail' = IF Head(queue).k = "getModule" THEN "none"
                              ELSE Head(queue).s]_vars

\* C13 witness: with no clearError call in between, a second error has
\* replaced the first one and onError was invoked for both
C13_Witness ==
  /\ hist.clearCalls = 0
  /\ hist.onErrorCalls = 2
  /\ error # NoError
  /\ \E w \in Wrappers :
       wrappers[w].entryPromise = "rejected" /\ wrappers[w].entryError # error

\* C14: preloadModule(id, value) with no error latched registers a new
\* wrapper under id that is Prepared (nothing to wait for, preparedPromise
\* fulfilled) with module.loaded set, invokes neither the Fetcher nor
\* onEntry and makes no entry point of it; and the engine never calls
\* execute() on a preloaded wrapper nor runs a body for it, so that
\* module.exports stays the value given.
C14_Preload ==
  /\ [][(hist'.preloads > hist.preloads /\ error = NoError) =>
          \A id \in PreloadIds(cfg) :
            /\ Len(wrappers') = Len(wrappers) + 1
            /\ moduleWrappers'[id] = Len(wrappers')
            /\ wrappers'[Len(wrappers')].id = id
            /\ wrappers'[Len(wrappers')].isPrepared
            /\ wrappers'[Len(wrappers')].waitingFor = <<>>
            /\ wrappers'[Len(wrappers')].preparedPromise = "fulfilled"
            /\ wrappers'[Len(wrappers')].loaded
            /\ wrappers'[Len(wrappers')].entryPromise = "none"
            /\ hist'.fetcherCalls = hist.fetcherCalls
            /\ hist'.onEntryCalls = hist.onEntryCalls]_vars
  /\ [](\A w \in Wrappers :
          wrappers[w].preloaded =>
            /\ wrappers[w].loaded
            /\ wrappers[w].executeCalls = 0
            /\ wrappers[w].fnCalls = 0
            /\ wrappers[w].entryPromise = "none")

\* C14 witness: a body has required the URL of a preloaded module and
\* finished, and the preloaded wrapper was never executed
C14_Witness ==
  \E w, v \in Wrappers :
    /\ wrappers[w].preloaded
    /\ moduleWrappers[wrappers[w].id] = w
    /\ wrappers[w].executeCalls = 0
    /\ wrappers[v].finished
    /\ w \in wrappers[v].requiredBy \/ v \in wrappers[w].requiredBy
    /\ \E i \in 1..Len(wrappers[v].body) : IdOf(wrappers[v].body[i]) = wrappers[w].id

\* wrapper w waits for something that has failed: a load in whose requiredBy
\* it is and whose promise is rejected, or a registered wrapper whose
\* preparedPromise is rejected
WaitsForFailed(w) ==
  \/ \E l \in Loads :
       /\ loadObjs[l].promise = "rejected"
       /\ w \in Range(loadObjs[l].requiredBy)
       /\ loadObjs[l].url \in Range(wrappers[w].waitingFor)
  \/ \E id \in Range(wrappers[w].waitingFor) :
       /\ moduleWrappers[id] # 0
       /\ wrappers[moduleWrappers[id]].preparedPromise = "rejected"

\* C15: fetch failure: once the jobs have run, every wrapper that waits for
\* a load whose promise is rejected, or for a wrapper whose preparedPromise
\* is rejected, has its preparedPromise rejected; a rejected wrapper is
\* never Prepared and is not executed from then on; and when the rejection
\* has reached an entry point (a wrapper without requiring module, or the
\* Loader.require call that started a load) and clearError was not called,
\* the error is latched.
C15_FetchFailure ==
  /\ [](queue = <<>> =>
          /\ \A w \in Wrappers :
               WaitsForFailed(w) => wrappers[w].preparedPromise = "rejected"
          /\ hist.clearCalls = 0 =>
               /\ (\E w \in Wrappers : /\ wrappers[w].entryPromise # "none"
                                       /\ wrappers[w].preparedPromise = "rejected")
                    => error # NoError
               /\ (\E l \in Loads : /\ loadObjs[l].requiredBy = <<>>
                                    /\ loadObjs[l].promise = "rejected")
                    => error # NoError)
  /\ [](\A w \in Wrappers :
          wrappers[w].preparedPromise = "rejected" => ~wrappers[w].isPrepared)
  /\ [][\A w \in Wrappers :
          wrappers[w].preparedPromise = "rejected" =>
            wrappers'[w].executeCalls = wrappers[w].executeCalls]_vars

\* C16: wrapper lifecycle order: execute() has run the body of a wrapper
\* that was not preloaded only when the wrapper was Prepared.
C16_ExecutedAfterPrepared ==
  \A w \in Wrappers : ~wrappers[w].preloaded => ~wrappers[w].executedPreparing

\* C17: for every wrapper, isPrepared implies that waitingFor is empty and
\* that preparedPromise is fulfilled; and after the step that constructed
\* and prepared the wrapper its waitingFor loses entries only.
C17_PreparedInvariant ==
  /\ [](\A w \in Wrappers :
          wrappers[w].isPrepared =>
            /\ wrappers[w].waitingFor = <<>>
            /\ wrappers[w].preparedPromise = "fulfilled")
  /\ [][\A w \in Wrappers :
          Range(wrappers'[w].waitingFor) \subseteq Range(wrappers[w].waitingFor)
          /\ Len(wrappers'[w].waitingFor) <= Len(wrappers[w].waitingFor)]_vars

\* C18: when handleFetchResult has called addToRequiredBy on the registered
\* wrapper of the result's id, no entry is left in that wrapper's waitingFor
\* that resolves to the id of a registered wrapper of its requiredBy set.
C18_StopsWaitingForRequiredBy ==
  [][(Runs("handleFetchResult") /\ error = NoError
        /\ loads[loadObjs[Head(queue).l].url] # 0
        /\ moduleWrappers[IdOf(loadObjs[Head(queue).l].url)] # 0) =>
       LET a == moduleWrappers[IdOf(loadObjs[Head(queue).l].url)]
       IN \A request \in Range(wrappers'[a].waitingFor) :
            ~ /\ knownURLs'[request] # "none"
              /\ moduleWrappers'[knownURLs'[request]] # 0
              /\ moduleWrappers'[knownURLs'[request]] \in wrappers'[a].requiredBy]_vars

\* the registered wrappers
Registered == {moduleWrappers[n] : n \in Names} \ {0}

\* C19: requiredBy is transitively closed: for registered wrappers a and b
\* with b in a.requiredBy, b.requiredBy is a subset of a.requiredBy.
C19_RequiredByClosed ==
  \A a, b \in Registered :
    b \in wrappers[a].requiredBy => wrappers[b].requiredBy \subseteq wrappers[a].requiredBy

\* the world of the entry that requires A then B, which require each other,
\* when every fetch succeeded and nothing was preloaded, unloaded or cleared
TwoCycleRun ==
  /\ cfg = 2
  /\ hist.fails = 0 /\ hist.preloads = 0 /\ hist.unloads = 0 /\ hist.clearCalls = 0

\* C20: cycle rule during execution: in the two-cycle A <-> B below an entry
\* that requires A then B, no error arises and no wrapper is executed twice;
\* the step that runs A's body runs B's body to its end inside A's
\* require(B), and B's body finishes before A's (B's require(A) returned
\* while A's body was still running); and once nothing is left to do, A
\* and B are Prepared and every registered wrapper has been executed
\* exactly once.
C20_CycleExecution ==
  /\ [](TwoCycleRun =>
          /\ hist.onErrorCalls = 0 /\ error = NoError
          /\ \A w \in Wrappers : wrappers[w].executeCalls <= 1
          /\ \A a, b \in Wrappers :
               (wrappers[a].id = "A" /\ wrappers[b].id = "B" /\ wrappers[a].finished) =>
                 /\ wrappers[b].finished
                 /\ wrappers[b].finishOrder < wrappers[a].finishOrder
          /\ Quiescent =>
               \A w \in Wrappers :
                 /\ wrappers[w].isPrepared
                 /\ wrappers[w].executeCalls = 1
                 /\ wrappers[w].finished)
  /\ [][TwoCycleRun =>
          \A a, b \in Wrappers :
            (/\ wrappers[a].id = "A" /\ wrappers[b].id = "B"
             /\ wrappers'[a].fnCalls > wrappers[a].fnCalls) =>
              /\ ~wrappers[b].loaded
              /\ wrappers'[b].fnCalls = 1
              /\ wrappers'[b].finished /\ wrappers'[a].finished]_vars

\* C20 witness: the entry, A and B have each been executed once, and B's
\* body finished first, then A's, then the entry's
C20_Witness ==
  /\ TwoCycleRun
  /\ \E e, a, b \in Wrappers :
       /\ wrappers[e].entryPromise = "fulfilled" /\ wrappers[e].body = <<"a", "b">>
       /\ wrappers[a].id = "A" /\ wrappers[b].id = "B"
       /\ wrappers[a].executeCalls = 1 /\ wrappers[b].executeCalls = 1
       /\ wrappers[e].executeCalls = 1
       /\ wrappers[b].finishOrder < wrappers[a].finishOrder
       /\ wrappers[a].finishOrder < wrappers[e].finishOrder
       /\ wrappers[b].finishOrder > 0

\* C21: whenever the promise returned by Loader.require(request) or by
\* evaluate(...) fulfils, the Module it yields has loaded = true: no getModule
\* reaction of either call has ever handed out a module whose body had not
\* been executed.
C21_YieldsLoaded == ~hist.yieldedUnloaded
====
